---- MODULE Spec2Model ----
(***************************************************************************)
(* Model of src/main.py: the parameter extractor                           *)
(* (convert_prompt_to_parameters), the batch scorer (analyze_job_batch),   *)
(* the batch loop (analyze_jobs_in_batches) and the part of main that      *)
(* summarises the resume, runs the batch loop and joins the ranked         *)
(* matches back onto the posting table.                                    *)
(*                                                                         *)
(* A DataFrame is a sequence of rows; every row carries its index label    *)
(* (idx).  A missing key / NaN cell is NULL.  Every call of the LLM        *)
(* provider is a nondeterministic choice over what the provider can do:    *)
(* raise, or return some text.                                             *)
(***************************************************************************)
EXTENDS Integers, Sequences, FiniteSets, TLC

\* ---------------------------------------------------------------- bounds
MaxJobs == 3
MaxBatch == 3
MaxRecs == 2

\* ------------------------------------------------------------- constants
\* retry_count >= 3 / retry_count < 3
MaxRetries == 3
\* time.sleep(2) in the except branch of analyze_job_batch
RetrySleep == 2
\* A missing key / NaN cell of a numeric column (job_index and match_score
\* are never negative), and of the reason column.
NULL == 0 - 1
NoReason == <<>>

VARIABLES
    pc,               \* position of the single thread of control
    error,            \* where an exception that reached main's handler was raised
    prompt,           \* convert_prompt_to_parameters: the user's query
    content,          \* convert_prompt_to_parameters: response.choices[0].message.content
    processed_params, \* convert_prompt_to_parameters: the returned value
    user_resume,      \* main: text of the resume text area
    data,             \* main: posting table after the description filter and reset_index
    matches_df,       \* main: what analyze_jobs_in_batches returned
    display_df,       \* main: the table written to the page
    resume,           \* analyze_jobs_in_batches: its resume argument
    batch_size,       \* analyze_jobs_in_batches: its batch_size argument
    i,                \* analyze_jobs_in_batches: loop variable
    all_matches,      \* analyze_jobs_in_batches: list of non-empty batch frames
    batch_matches,    \* analyze_jobs_in_batches: frame returned for the current batch
    jobs_batch,       \* analyze_job_batch: its jobs_batch argument
    start_index,      \* analyze_job_batch: its start_index argument
    retry_count,      \* analyze_job_batch: its retry_count argument
    jobs_info,        \* analyze_job_batch: descriptors sent to the provider
    resume_summary,   \* analyze_job_batch: the summary put in the scoring prompt
    visited,          \* history: the batches the loop has handed to the scorer
    returned,         \* history: the frame the scorer returned for each finished batch
    log,              \* history: provider calls and sleeps of the current scorer call
    calls,            \* history: provider calls made since analyze_jobs_in_batches was entered
    used              \* history: the summaries that appeared in scoring prompts

vars == <<pc, error, prompt, content, processed_params, user_resume, data,
          matches_df, display_df, resume, batch_size, i, all_matches,
          batch_matches, jobs_batch, start_index, retry_count, jobs_info,
          resume_summary, visited, returned, log, calls, used>>

paramVars == <<prompt, content, processed_params>>
mainVars == <<user_resume, data, matches_df, display_df>>
loopVars == <<resume, batch_size, i, all_matches, batch_matches>>
scorerVars == <<jobs_batch, start_index, retry_count, jobs_info, resume_summary>>
histVars == <<visited, returned, log, calls, used>>

\* ---------------------------------------------------------------- helpers
Min(a, b) == IF a < b THEN a ELSE b

Range(s) == {s[k] : k \in DOMAIN s}

\* Python's s[lo:hi] for 0 <= lo <= hi
Slice(s, lo, hi) == SubSeq(s, lo + 1, Min(hi, Len(s)))

RECURSIVE Concat(_)
Concat(frames) ==
    IF frames = <<>> THEN <<>> ELSE Head(frames) \o Concat(Tail(frames))

\* ---------------------------------------------------------- the provider
\* Texts the summarizer prompt can come back with (analyze_resume returns
\* message.content unchanged).
Summaries == {"", "summary A"}

\* Outcomes of one chat.completions.create call of analyze_resume.
SummaryReplies == {[kind |-> "error", text |-> ""]}
                  \cup {[kind |-> "ok", text |-> s] : s \in Summaries}

Scores == {50, 90}

\* Objects the provider may put into the array it returns for a batch: a
\* scored descriptor of the first or last job of the batch, or an object
\* with neither job_index nor match_score (such as {"note": "n/a"}).
RecordChoices(info) ==
    LET first == info[1].index
        last == info[Len(info)].index
    IN  {[job_index |-> j, match_score |-> s] : j \in {first, last}, s \in Scores}
        \cup {[job_index |-> NULL, match_score |-> NULL]}

Arrays(info) ==
    UNION {[1..m -> RecordChoices(info)] : m \in 0..Min(Len(info), MaxRecs)}

\* Outcomes of the scoring call: the provider raises ("error"), returns text
\* that is not JSON ("text"), JSON that is a scalar or an object of scalars
\* ("scalar"), or a JSON array of objects ("array").
ScoreReplies(info) ==
    {[kind |-> k, items |-> <<>>] : k \in {"error", "text", "scalar"}}
    \cup {[kind |-> "array", items |-> a] : a \in Arrays(info)}

\* ----------------------------------------------------------------- pandas
\* pd.DataFrame(list of dicts): one row per dict under a RangeIndex.  The
\* reason cell is kept as the place the provider wrote it (batch, position),
\* so that every returned record is distinguishable.
DataFrame(items, start) ==
    [k \in 1..Len(items) |->
        [idx |-> k - 1,
         job_index |-> items[k].job_index,
         match_score |-> items[k].match_score,
         reason |-> <<start, k>>]]

\* DataFrame.empty
Empty(frame) == Len(frame) = 0

\* pd.concat(frames, ignore_index=True)
ConcatIgnoreIndex(frames) ==
    LET rows == Concat(frames)
    IN  [k \in 1..Len(rows) |-> [rows[k] EXCEPT !.idx = k - 1]]

\* 'match_score' in frame.columns
HasColumn(frame, col) == \E k \in DOMAIN frame : frame[k][col] # NULL

\* sort_values is called without kind, so pandas hands the column to
\* numpy's argsort with kind='quicksort', which is not stable (introsort
\* beyond 16 elements, sorting networks on SIMD builds).  The orders it may
\* give the positions in S, descending by match_score: equal keys in any
\* order.
RECURSIVE Descending(_, _)
Descending(frame, S) ==
    IF S = {} THEN {<<>>}
    ELSE LET top == {k \in S : \A m \in S :
                        frame[k].match_score >= frame[m].match_score}
         IN  UNION {{<<k>> \o t : t \in Descending(frame, S \ {k})} : k \in top}

\* The positions of the NaN cells, in their original order (na_position='last').
RECURSIVE NaNs(_, _)
NaNs(frame, k) ==
    IF k > Len(frame) THEN <<>>
    ELSE IF frame[k].match_score = NULL THEN <<k>> \o NaNs(frame, k + 1)
    ELSE NaNs(frame, k + 1)

\* frame.sort_values('match_score', ascending=False): every frame it may return.
SortValues(frame) ==
    LET nonNaN == {k \in DOMAIN frame : frame[k].match_score # NULL}
    IN  {[k \in 1..Len(frame) |-> frame[(p \o NaNs(frame, 1))[k]]] :
            p \in Descending(frame, nonNaN)}

\* series.loc[label] under a unique index, NaN when the label is absent
\* (the alignment of a column assignment).
AtLabel(frame, label, col) ==
    IF \E k \in DOMAIN frame : frame[k].idx = label
    THEN (CHOOSE r \in Range(frame) : r.idx = label)[col]
    ELSE NULL

\* ------------------------------------------------------------ the postings
\* The posting table after reset_index: row p (0-based) is posting p.
Postings(n) == [k \in 1..n |-> [title |-> k - 1]]

\* -------------------------------------------- convert_prompt_to_parameters
Queries == {"sr python dev in SF", "ml engineer", "nurse, chicago", "remote qa"}
Terms == {"senior python developer", "nurse"}
Locations == {"USA", "Chicago"}
ABSENT == "<absent>"

\* message.content of the extractor's response: None ("none"), text that is
\* not JSON ("text"), JSON that is no object ("array", "number", "string",
\* "null", "bool"), or a JSON object with or without each of the two keys.
ExtractorContents ==
    {[kind |-> k, search_term |-> ABSENT, location |-> ABSENT] :
        k \in {"none", "text", "array", "number", "string", "null", "bool"}}
    \cup {[kind |-> "object", search_term |-> t, location |-> l] :
            t \in Terms \cup {ABSENT}, l \in Locations \cup {ABSENT}}

\* {"search_term": prompt, "location": "USA"}
DefaultParams(q) == [kind |-> "object", search_term |-> q, location |-> "USA"]

\* response = client.chat.completions.create(...): outside the try block.
CallExtractor ==
    /\ pc = "params"
    /\ \/ /\ pc' = "crash"
          /\ error' = "create"
          /\ UNCHANGED content
       \/ /\ content' \in ExtractorContents
          /\ pc' = "parse"
          /\ UNCHANGED error
    /\ UNCHANGED <<prompt, processed_params, mainVars, loopVars, scorerVars, histVars>>

\* try: return json.loads(content) / except json.JSONDecodeError: default.
\* json.loads(None) raises TypeError, which the except clause does not name;
\* any JSON value is returned as decoded.
ParseParams ==
    /\ pc = "parse"
    /\ IF content.kind = "none"
       THEN /\ pc' = "crash"
            /\ error' = "json.loads"
            /\ UNCHANGED processed_params
       ELSE /\ processed_params' = IF content.kind = "text"
                                   THEN DefaultParams(prompt)
                                   ELSE content
            /\ pc' = "params_done"
            /\ UNCHANGED error
    /\ UNCHANGED <<prompt, content, mainVars, loopVars, scorerVars, histVars>>

\* ------------------------------------------------------- analyze_job_batch
\* An entry of the history of one scorer call: a provider call or a sleep.
Event(op, secs) == [op |-> op, secs |-> secs]

\* JobsInfo with the batch-local index (start_index dropped).
JobsInfoLocal(batch, start) ==
    [k \in 1..Len(batch) |-> [index |-> k - 1, title |-> batch[k].title]]

\* jobs_info: every job of the batch tagged with idx + start_index
\* (enumerate counts from 0).
JobsInfo(batch, start) ==
    [k \in 1..Len(batch) |-> [index |-> (k - 1) + start, title |-> batch[k].title]]

\* if retry_count >= 3: return pd.DataFrame(); otherwise build jobs_info.
EnterBatch ==
    /\ pc = "batch"
    /\ IF retry_count >= MaxRetries
       THEN /\ batch_matches' = <<>>
            /\ pc' = "ret"
            /\ UNCHANGED jobs_info
       ELSE /\ jobs_info' = JobsInfo(jobs_batch, start_index)
            /\ pc' = "summ"
            /\ UNCHANGED batch_matches
    /\ UNCHANGED <<error, paramVars, mainVars, resume, batch_size, i, all_matches,
                   jobs_batch, start_index, retry_count, resume_summary, histVars>>

\* resume_summary = analyze_resume(client, resume): outside the try block,
\* so a provider error leaves analyze_job_batch and analyze_jobs_in_batches
\* and is caught only by main.
Summarize ==
    /\ pc = "summ"
    /\ \E r \in SummaryReplies :
         /\ log' = Append(log, Event(IF r.kind = "error" THEN "summ_raise" ELSE "summ", 0))
         /\ calls' = [calls EXCEPT !.summ = @ + 1]
         /\ IF r.kind = "error"
            THEN /\ pc' = "crash"
                 /\ error' = "analyze_job_batch"
                 /\ UNCHANGED resume_summary
            ELSE /\ resume_summary' = r.text
                 /\ pc' = "score"
                 /\ UNCHANGED error
    /\ UNCHANGED <<paramVars, mainVars, loopVars, jobs_batch, start_index,
                   retry_count, jobs_info, visited, returned, used>>

\* What the try block does with one provider outcome: create() raises,
\* json.loads raises on text that is not JSON, pd.DataFrame raises on a
\* scalar; a JSON array becomes a frame whatever keys its objects have.
Raises(reply) == reply.kind # "array"

\* The try/except of analyze_job_batch: one scoring request; the parsed frame
\* on success, otherwise sleep 2 s and recurse with retry_count + 1.
Score ==
    /\ pc = "score"
    /\ \E r \in ScoreReplies(jobs_info) :
         /\ calls' = [calls EXCEPT !.score = @ + 1]
         /\ used' = used \cup {resume_summary}
         /\ IF ~Raises(r)
            THEN /\ batch_matches' = DataFrame(r.items, start_index)
                 /\ log' = Append(log, Event("score_ok", 0))
                 /\ pc' = "ret"
                 /\ UNCHANGED retry_count
            ELSE IF retry_count < MaxRetries
            THEN /\ log' = log \o <<Event("score_fail", 0), Event("sleep", RetrySleep)>>
                 /\ retry_count' = retry_count + 1
                 /\ pc' = "batch"
                 /\ UNCHANGED batch_matches
            ELSE /\ batch_matches' = <<>>
                 /\ log' = Append(log, Event("score_fail", 0))
                 /\ pc' = "ret"
                 /\ UNCHANGED retry_count
    /\ UNCHANGED <<error, paramVars, mainVars, resume, batch_size, i, all_matches,
                   jobs_batch, start_index, jobs_info, resume_summary,
                   visited, returned>>

\* ------------------------------------------------- analyze_jobs_in_batches
\* jobs_dict[i:i + batch_size]
BatchOf(jobs, lo, b) == Slice(jobs, lo, lo + b)

\* the step of range(0, len(jobs_dict), batch_size)
NextStart(lo, b) == lo + b

\* for i in range(...): batch = ...; analyze_job_batch(client, resume, batch, i)
LoopHead ==
    /\ pc = "loop"
    /\ IF i < Len(data)
       THEN /\ jobs_batch' = BatchOf(data, i, batch_size)
            /\ start_index' = i
            /\ retry_count' = 0
            /\ visited' = Append(visited, [start |-> i, batch |-> jobs_batch'])
            /\ log' = <<>>
            /\ pc' = "batch"
       ELSE /\ pc' = "finish"
            /\ UNCHANGED <<jobs_batch, start_index, retry_count, visited, log>>
    /\ UNCHANGED <<error, paramVars, mainVars, loopVars, jobs_info,
                   resume_summary, returned, calls, used>>

\* if not batch_matches.empty: all_matches.append(batch_matches); progress;
\* time.sleep(1); next i.
Collect ==
    /\ pc = "ret"
    /\ all_matches' = IF ~Empty(batch_matches)
                      THEN Append(all_matches, batch_matches)
                      ELSE all_matches
    /\ returned' = Append(returned, batch_matches)
    /\ i' = NextStart(i, batch_size)
    /\ pc' = "loop"
    \* the scorer's frame is gone
    /\ jobs_batch' = <<>> /\ start_index' = 0 /\ retry_count' = 0
    /\ jobs_info' = <<>> /\ resume_summary' = "" /\ log' = <<>>
    /\ UNCHANGED <<error, paramVars, mainVars, resume, batch_size, batch_matches,
                   visited, calls, used>>

\* if all_matches: concat and sort_values('match_score', ascending=False)
\* (KeyError when no record has a match_score); else an empty frame.
Finish ==
    /\ pc = "finish"
    /\ IF all_matches # <<>>
       THEN LET final_matches == ConcatIgnoreIndex(all_matches)
            IN  IF ~HasColumn(final_matches, "match_score")
                THEN /\ pc' = "crash"
                     /\ error' = "sort_values"
                     /\ UNCHANGED matches_df
                ELSE /\ matches_df' \in SortValues(final_matches)
                     /\ pc' = "join"
                     /\ UNCHANGED error
       ELSE /\ matches_df' = <<>>
            /\ pc' = "join"
            /\ UNCHANGED error
    /\ UNCHANGED <<paramVars, user_resume, data, display_df, loopVars,
                   scorerVars, histVars>>

\* -------------------------------------------------------------------- main
\* if user_resume: resume_summary = analyze_resume(client, user_resume);
\* matches_df = analyze_jobs_in_batches(client, resume_summary, data, ...)
\* up to the first loop test (all_matches = [], i = 0).
MainResume ==
    /\ pc = "main"
    /\ IF user_resume = ""
       THEN /\ pc' = "done"
            /\ UNCHANGED <<error, resume>>
       ELSE \E r \in SummaryReplies :
              IF r.kind = "error"
              THEN /\ pc' = "crash"
                   /\ error' = "analyze_resume"
                   /\ UNCHANGED resume
              ELSE /\ resume' = r.text
                   /\ pc' = "loop"
                   /\ UNCHANGED error
    /\ UNCHANGED <<paramVars, mainVars, batch_size, i, all_matches,
                   batch_matches, scorerVars, histVars>>

\* data.iloc[matches_df['job_index']]: positional rows of data, which keep
\* their labels; NaN or out-of-range positions raise.
ILocOK(frame, table) ==
    \A k \in DOMAIN frame : frame[k].job_index \in 0..(Len(table) - 1)

\* matched_jobs with the two assigned columns: a column assignment aligns
\* the Series on the index labels of matched_jobs.
MatchedJobs(frame, table) ==
    [k \in 1..Len(frame) |->
        LET label == frame[k].job_index
        IN  [idx |-> label,
             title |-> table[label + 1].title,
             match_score |-> AtLabel(frame, label, "match_score"),
             match_reason |-> IF AtLabel(frame, label, "idx") = NULL
                              THEN NoReason
                              ELSE AtLabel(frame, label, "reason")]]

\* if not matches_df.empty: join, sort and write; else warn.
Join ==
    /\ pc = "join"
    /\ IF Empty(matches_df)
       THEN /\ pc' = "done"
            /\ UNCHANGED <<error, display_df>>
       ELSE IF ~ILocOK(matches_df, data)
       THEN /\ pc' = "crash"
            /\ error' = "iloc"
            /\ UNCHANGED display_df
       ELSE /\ display_df' \in SortValues(MatchedJobs(matches_df, data))
            /\ pc' = "done"
            /\ UNCHANGED error
    /\ UNCHANGED <<paramVars, user_resume, data, matches_df, loopVars,
                   scorerVars, histVars>>

\* ---------------------------------------------------------- specifications
Idle ==
    /\ error = ""
    /\ prompt = "" /\ content = "" /\ processed_params = ""
    /\ matches_df = <<>> /\ display_df = <<>>
    /\ resume = "" /\ i = 0 /\ all_matches = <<>> /\ batch_matches = <<>>
    /\ jobs_batch = <<>> /\ start_index = 0 /\ retry_count = 0
    /\ jobs_info = <<>> /\ resume_summary = ""
    /\ visited = <<>> /\ returned = <<>> /\ log = <<>>
    /\ calls = [summ |-> 0, score |-> 0] /\ used = {}

\* A matching session: main from "if user_resume:" on, for every resume,
\* posting table and batch size within the bounds.
Init ==
    /\ pc = "main"
    /\ user_resume \in {"", "resume text"}
    /\ data \in {Postings(n) : n \in 0..MaxJobs}
    /\ batch_size \in 1..MaxBatch
    /\ Idle

Next ==
    \/ MainResume
    \/ LoopHead
    \/ EnterBatch
    \/ Summarize
    \/ Score
    \/ Collect
    \/ Finish
    \/ Join

Spec == Init /\ [][Next]_vars

\* A matching session over a posting table of 50 and more rows (get_job_data
\* asks three sites for 60 results each).
CapSizes == {50, 51}
CapBatches == {26, 50}

InitCap ==
    /\ pc = "main"
    /\ user_resume = "resume text"
    /\ data \in {Postings(n) : n \in CapSizes}
    /\ batch_size \in CapBatches
    /\ Idle

SpecCap == InitCap /\ [][Next]_vars

\* One call of convert_prompt_to_parameters.
InitParams ==
    /\ pc = "params"
    /\ user_resume = "" /\ data = <<>> /\ batch_size = 1
    /\ error = ""
    /\ prompt \in Queries /\ content = "" /\ processed_params = ""
    /\ matches_df = <<>> /\ display_df = <<>>
    /\ resume = "" /\ i = 0 /\ all_matches = <<>> /\ batch_matches = <<>>
    /\ jobs_batch = <<>> /\ start_index = 0 /\ retry_count = 0
    /\ jobs_info = <<>> /\ resume_summary = ""
    /\ visited = <<>> /\ returned = <<>> /\ log = <<>>
    /\ calls = [summ |-> 0, score |-> 0] /\ used = {}

NextParams ==
    \/ CallExtractor
    \/ ParseParams

SpecParams == InitParams /\ [][NextParams]_vars

\* ------------------------------------------------------------ properties
\* ceil(len(jobs_dict) / batch_size)
NumBatches == (Len(data) + batch_size - 1) \div batch_size

\* analyze_jobs_in_batches has been entered and main has not yet used its result.
InOrchestrator == pc \in {"loop", "batch", "summ", "score", "ret", "finish", "join"}

\* analyze_jobs_in_batches is over: it returned, or an exception left it.
OrchestratorOver ==
    \/ pc = "join"
    \/ pc = "crash" /\ error \in {"analyze_job_batch", "sort_values"}

\* the call of analyze_job_batch made by the loop is over
ScorerOver ==
    \/ pc = "ret"
    \/ pc = "crash" /\ error = "analyze_job_batch"

ScoreEvents == {k \in DOMAIN log : log[k].op \in {"score_ok", "score_fail"}}

\* everything the scorer returned, in batch order
AllReturned == Concat(returned)

\* C1: within one run of analyze_jobs_in_batches the summarizer is called at
\* most once and every scoring request carries the same summary.
C1_SummaryOnce ==
    InOrchestrator \/ OrchestratorOver =>
        /\ calls.summ <= 1
        /\ Cardinality(used) <= 1

\* C2: whatever fails inside a batch, the loop still processes every batch
\* and returns exactly the records of the batches that succeeded.
C2_LoopSurvivesBatchFailure ==
    OrchestratorOver =>
        /\ pc = "join"
        /\ Len(returned) = NumBatches
        /\ Len(matches_df) = Len(AllReturned)
        /\ {[job_index |-> r.job_index, match_score |-> r.match_score, reason |-> r.reason] :
                r \in Range(matches_df)}
           = {[job_index |-> r.job_index, match_score |-> r.match_score, reason |-> r.reason] :
                r \in Range(AllReturned)}

\* C3: analyze_job_batch ends after at most 3 scoring requests, sleeps 2 s
\* between consecutive attempts, returns an empty frame when every attempt
\* failed, and returns at its first successful attempt.
C3_RetryThenEmpty ==
    ScorerOver =>
        /\ Cardinality(ScoreEvents) <= 3
        /\ \A a, b \in ScoreEvents :
              (a < b /\ ~\E c \in ScoreEvents : a < c /\ c < b) =>
                 Cardinality({k \in a..b : log[k] = Event("sleep", 2)}) = 1
        /\ (ScoreEvents # {} /\ \A k \in ScoreEvents : log[k].op = "score_fail") =>
              pc = "ret" /\ Empty(batch_matches)
        /\ \A k \in ScoreEvents :
              log[k].op = "score_ok" => k = Len(log) /\ pc = "ret"

\* The part of C3 that is about the retry counter alone: never more than 3
\* scoring requests per batch, one 2 s sleep after each failed one, nothing
\* after a success, and an empty frame after three failures.
RetryCap ==
    /\ Cardinality(ScoreEvents) <= MaxRetries
    /\ \A k \in ScoreEvents :
          /\ log[k].op = "score_fail" => k < Len(log) /\ log[k + 1] = Event("sleep", RetrySleep)
          /\ log[k].op = "score_ok" => k = Len(log) /\ pc = "ret"
    /\ (pc = "ret" /\ Cardinality(ScoreEvents) = MaxRetries
        /\ \A k \in ScoreEvents : log[k].op = "score_fail") => Empty(batch_matches)

\* C4: what the scorer returns is empty or has a job_index and a match_score
\* in every record.
C4_ParsedRecordsValid ==
    pc = "ret" =>
        \A k \in DOMAIN batch_matches :
            /\ batch_matches[k].job_index # NULL
            /\ batch_matches[k].match_score # NULL

\* C5: with an empty resume or an empty posting table analyze_jobs_in_batches
\* makes no provider call and returns an empty frame.
C5_EmptyInputNoCalls ==
    (InOrchestrator /\ (resume = "" \/ data = <<>>)) =>
        /\ calls.summ = 0
        /\ calls.score = 0
        /\ pc = "join" => Empty(matches_df)

\* C6: the loop hands the scorer consecutive, non-overlapping batches, batch k
\* (from 0) starting at k * batch_size, all of length batch_size but possibly
\* the last; every descriptor carries the posting's position in the table;
\* when the loop ends the batches cover every posting exactly once.
C6_Partition ==
    /\ \A k \in DOMAIN visited :
          /\ visited[k].start = (k - 1) * batch_size
          /\ visited[k].start < Len(data)
          /\ Len(visited[k].batch) =
                IF k * batch_size <= Len(data) THEN batch_size
                ELSE Len(data) - (k - 1) * batch_size
          /\ \A m \in DOMAIN visited[k].batch :
                visited[k].batch[m] = data[(k - 1) * batch_size + m]
    /\ pc \in {"summ", "score"} =>
          /\ Len(jobs_info) = Len(visited[Len(visited)].batch)
          /\ \A m \in DOMAIN jobs_info :
                /\ jobs_info[m].index = (Len(visited) - 1) * batch_size + (m - 1)
                /\ data[jobs_info[m].index + 1].title = jobs_info[m].title
    /\ pc \in {"finish", "join"} =>
          Concat([k \in DOMAIN visited |-> visited[k].batch]) = data

\* C6 witness: the loop has ended after two or more batches, the last one shorter.
C6_Witness ==
    /\ pc = "finish"
    /\ Len(visited) >= 2
    /\ batch_size >= 2
    /\ Len(visited[Len(visited)].batch) < batch_size

\* C7: a non-empty result is the concatenation of the batch results sorted
\* descending by match_score, records of equal score in their original order.
C7_StableRanking ==
    (pc = "join" /\ all_matches # <<>>) =>
        LET c == ConcatIgnoreIndex(returned)
        IN  /\ Len(matches_df) = Len(c)
            /\ Range(matches_df) = Range(c)
            /\ \A a, b \in DOMAIN matches_df :
                  a < b =>
                     \/ matches_df[a].match_score > matches_df[b].match_score
                     \/ /\ matches_df[a].match_score = matches_df[b].match_score
                        /\ matches_df[a].idx < matches_df[b].idx

\* C8: no posting at position 50 or later reaches the scorer, and at most
\* ceil(50 / batch_size) batches are processed.
C8_FiftyCap ==
    /\ \A k \in DOMAIN visited :
          \A m \in DOMAIN visited[k].batch : visited[k].start + (m - 1) < 50
    /\ (Len(visited) - 1) * batch_size < 50

\* a mapping with both search_term and location
ValidParams(v) ==
    /\ v.kind = "object"
    /\ v.search_term # ABSENT
    /\ v.location # ABSENT

\* C9: once the provider has answered, convert_prompt_to_parameters does not
\* raise, returns a mapping with both keys, and returns the default whenever
\* the answer is not such a mapping.
C9_ExtractorTotal ==
    (pc = "params_done" \/ (pc = "crash" /\ error = "json.loads")) =>
        /\ pc = "params_done"
        /\ ValidParams(processed_params)
        /\ ~ValidParams(content) => processed_params = DefaultParams(prompt)

\* C10: every displayed row shows, for its posting, a match_score and reason
\* that the provider returned for that posting's job_index.
C10_JoinByJobIndex ==
    pc = "done" =>
        \A k \in DOMAIN display_df :
            \E r \in Range(AllReturned) :
                /\ r.job_index = display_df[k].idx
                /\ r.match_score = display_df[k].match_score
                /\ r.reason = display_df[k].match_reason

TypeOK ==
    /\ pc \in {"params", "parse", "params_done", "main", "loop", "batch",
               "summ", "score", "ret", "finish", "join", "done", "crash"}
    /\ batch_size \in Nat \ {0}
    /\ i \in Nat
    /\ retry_count \in 0..MaxRetries

====
